---- MODULE Spec2Model ----
(***************************************************************************)
(* Model of the web IDE server: the path sandbox helpers (resolveSafe,     *)
(* resolveWorkspacePath) and the /term WebSocket terminal bridge, in its   *)
(* three revisions:                                                        *)
(*   "basic"   src/server.js                (project via path.basename)    *)
(*   "path"    src/unnamed/part_000:1-237   (path via resolveSafe)         *)
(*   "project" src/unnamed/part_000:239-522 (project via path.basename)    *)
(* Strings that the code inspects character by character (paths, request  *)
(* parameters) are sequences of one-character strings.  An absent request  *)
(* parameter is the empty sequence: every use in the code is `x || dflt`   *)
(* or `!x`, which treat null, undefined and '' alike.                      *)
(***************************************************************************)
EXTENDS Integers, Sequences, FiniteSets, TLC

(* ------------------------------ bounds --------------------------------- *)
\* longest `path` candidate tried on the pure sandbox functions
MaxRelLen == 5
\* longest `project` name tried on the pure sandbox functions
MaxProjLen == 2

Alphabet == {"/", ".", "a", "b"}

RECURSIVE StringsUpTo(_)
StringsUpTo(n) ==
  IF n = 0 THEN {<<>>}
  ELSE LET shorter == StringsUpTo(n - 1)
       IN  shorter \cup {Append(s, ch) : s \in {t \in shorter : Len(t) = n - 1}, ch \in Alphabet}

RelCandidates == StringsUpTo(MaxRelLen)
ProjCandidates == StringsUpTo(MaxProjLen)

(* --------------------------- string helpers ---------------------------- *)
\* String.prototype.startsWith
StartsWith(s, p) == Len(p) <= Len(s) /\ SubSeq(s, 1, Len(p)) = p

\* the segments of a path between separators (empty segments included)
RECURSIVE Segments(_)
Segments(s) ==
  IF \A i \in 1..Len(s) : s[i] # "/" THEN <<s>>
  ELSE LET k == CHOOSE i \in 1..Len(s) : s[i] = "/" /\ \A j \in 1..(i - 1) : s[j] # "/"
       IN  <<SubSeq(s, 1, k - 1)>> \o Segments(SubSeq(s, k + 1, Len(s)))

\* node's normalizeString for an absolute path: '' and '.' are dropped, '..'
\* removes the segment before it and is dropped at the filesystem root
RECURSIVE NormalizeSegs(_, _)
NormalizeSegs(segs, acc) ==
  IF segs = <<>> THEN acc
  ELSE LET h == Head(segs)
           t == Tail(segs)
       IN  IF h = <<>> \/ h = <<".">> THEN NormalizeSegs(t, acc)
           ELSE IF h = <<".", ".">>
                THEN NormalizeSegs(t, IF acc = <<>> THEN acc ELSE SubSeq(acc, 1, Len(acc) - 1))
                ELSE NormalizeSegs(t, Append(acc, h))

RECURSIVE JoinSegs(_)
JoinSegs(segs) ==
  IF segs = <<>> THEN <<>> ELSE <<"/">> \o Head(segs) \o JoinSegs(Tail(segs))

AbsFromSegs(segs) == IF segs = <<>> THEN <<"/">> ELSE JoinSegs(segs)

\* path.resolve(from, to) on POSIX with `from` absolute: an absolute `to`
\* replaces `from`, an empty `to` is skipped, the result has no trailing slash
PathResolve(from, to) ==
  IF to # <<>> /\ to[1] = "/"
  THEN AbsFromSegs(NormalizeSegs(Segments(to), <<>>))
  ELSE AbsFromSegs(NormalizeSegs(Segments(from \o <<"/">> \o to), <<>>))

\* path.join(a, b) on POSIX with `a` absolute: the parts are concatenated with
\* a separator and normalized; a trailing separator of the input is kept
PathJoin(a, b) ==
  LET joined == IF b = <<>> THEN a ELSE a \o <<"/">> \o b
      norm == AbsFromSegs(NormalizeSegs(Segments(joined), <<>>))
  IN  IF joined[Len(joined)] = "/" /\ norm # <<"/">> THEN norm \o <<"/">> ELSE norm

\* trailing separators removed (the first step of path.basename)
RECURSIVE StripTrailingSeps(_)
StripTrailingSeps(s) ==
  IF s # <<>> /\ s[Len(s)] = "/" THEN StripTrailingSeps(SubSeq(s, 1, Len(s) - 1)) ELSE s

\* path.basename(p): the last segment, trailing separators ignored.  '..' and
\* '.' are segments like any other and are returned unchanged.
PathBasename(p) ==
  LET segs == Segments(StripTrailingSeps(p))
  IN  segs[Len(segs)]

\* s.replace(/^\/+/, '')
RECURSIVE StripLeadingSeps(_)
StripLeadingSeps(s) ==
  IF s # <<>> /\ s[1] = "/" THEN StripLeadingSeps(Tail(s)) ELSE s

(* ----------------------------- constants ------------------------------- *)
\* WORKSPACE_ROOT: an absolute directory with a parent, here /h/a
WORKSPACE_ROOT == <<"/", "h", "/", "a">>

ErrOutsideRoot == "Path outside workspace root is not allowed"
ErrProjectRequired == "project name required"
ErrOutsideProject == "Invalid path (outside project)"

\* the result of a sandbox helper: a return value or a thrown Error
Returned(root, p) == [ok |-> TRUE, projectRoot |-> root, resolved |-> p, err |-> ""]
Thrown(msg) == [ok |-> FALSE, projectRoot |-> <<>>, resolved |-> <<>>, err |-> msg]

(* --------------------------- path sandbox ------------------------------ *)
\* faulty variant: the containment test without the separator after the root
resolveSafe_NoSeparator(rel) ==
  LET sanitizedRel == StripLeadingSeps(IF rel = <<>> THEN <<".">> ELSE rel)
      resolved == PathResolve(WORKSPACE_ROOT, sanitizedRel)
  IN  IF ~StartsWith(resolved, PathResolve(WORKSPACE_ROOT, <<>>))
      THEN Thrown(ErrOutsideRoot)
      ELSE Returned(WORKSPACE_ROOT, resolved)

\* faulty variant: the root itself is not accepted by the containment test
resolveSafe_NoRootCase(rel) ==
  LET sanitizedRel == StripLeadingSeps(IF rel = <<>> THEN <<".">> ELSE rel)
      resolved == PathResolve(WORKSPACE_ROOT, sanitizedRel)
      rootNormalized == PathResolve(WORKSPACE_ROOT, <<>>) \o <<"/">>
  IN  IF ~StartsWith(resolved, rootNormalized)
      THEN Thrown(ErrOutsideRoot)
      ELSE Returned(WORKSPACE_ROOT, resolved)

resolveSafe(rel) ==
  LET sanitizedRel == StripLeadingSeps(IF rel = <<>> THEN <<".">> ELSE rel)
      resolved == PathResolve(WORKSPACE_ROOT, sanitizedRel)
      rootNormalized == PathResolve(WORKSPACE_ROOT, <<>>) \o <<"/">>
      resolvedNormalized == resolved
  IN  IF ~StartsWith(resolvedNormalized, rootNormalized)
         /\ resolved # PathResolve(WORKSPACE_ROOT, <<>>)
      THEN Thrown(ErrOutsideRoot)
      ELSE Returned(WORKSPACE_ROOT, resolved)

\* faulty variant: leading separators of the candidate are stripped first
resolveWorkspacePath_StripLeading(project, rel) ==
  IF project = <<>> THEN Thrown(ErrProjectRequired)
  ELSE LET sanitizedProject == PathBasename(project)
           projectRoot == PathResolve(WORKSPACE_ROOT, sanitizedProject)
           sanitizedRel == StripLeadingSeps(IF rel = <<>> THEN <<".">> ELSE rel)
           resolved == PathResolve(projectRoot, sanitizedRel)
       IN  IF ~StartsWith(resolved, projectRoot)
           THEN Thrown(ErrOutsideProject)
           ELSE Returned(projectRoot, resolved)

resolveWorkspacePath(project, rel) ==
  IF project = <<>> THEN Thrown(ErrProjectRequired)
  ELSE LET sanitizedProject == PathBasename(project)
           projectRoot == PathResolve(WORKSPACE_ROOT, sanitizedProject)
           resolved == PathResolve(projectRoot, IF rel = <<>> THEN <<".">> ELSE rel)
       IN  IF ~StartsWith(resolved, projectRoot)
           THEN Thrown(ErrOutsideProject)
           ELSE Returned(projectRoot, resolved)

(* ------------------- containment, stated on segments ------------------- *)
\* the directory resolveWorkspacePath confines a project to
ProjectRootOf(project) == PathResolve(WORKSPACE_ROOT, PathBasename(project))
SegsOf(p) == NormalizeSegs(Segments(p), <<>>)

(* ------------------------ workspace-relative paths ---------------------- *)
\* the leading segments two paths share
RECURSIVE CommonPrefixLen(_, _)
CommonPrefixLen(a, b) ==
  IF a = <<>> \/ b = <<>> \/ Head(a) # Head(b) THEN 0
  ELSE 1 + CommonPrefixLen(Tail(a), Tail(b))

\* path.relative(from, to) on POSIX: both are resolved, one '..' is emitted for
\* each segment of `from` below the common directory, then the rest of `to`;
\* the result has no leading separator and is '' when the two are equal
PathRelative(from, to) ==
  LET fs == SegsOf(from)
      ts == SegsOf(to)
      k == CommonPrefixLen(fs, ts)
      out == [i \in 1..(Len(fs) - k) |-> <<".", ".">>] \o SubSeq(ts, k + 1, Len(ts))
  IN  IF out = <<>> THEN <<>> ELSE Tail(JoinSegs(out))

\* faulty variant: the arguments of path.relative are swapped
toRel_SwappedArgs(absPath) ==
  LET rel == PathRelative(absPath, WORKSPACE_ROOT)
  IN  IF rel = <<>> THEN <<".">> ELSE rel

\* toRel(absPath); path.sep is '/' on POSIX, so replaceAll changes nothing
toRel(absPath) ==
  LET rel == PathRelative(WORKSPACE_ROOT, absPath)
  IN  IF rel = <<>> THEN <<".">> ELSE rel

\* p is dir itself or lies below it in the directory tree
IsWithin(p, dir) ==
  LET ps == SegsOf(p)
      ds == SegsOf(dir)
  IN  Len(ds) <= Len(ps) /\ SubSeq(ps, 1, Len(ds)) = ds

IsProperDescendant(p, dir) == IsWithin(p, dir) /\ SegsOf(p) # SegsOf(dir)

(* ----------------------- terminal bridge: bounds ----------------------- *)
\* longest `path` / `project` query parameter of a /term connection
MaxParamLen == 2
\* output chunks the shell processes emit, all sessions together
MaxChunks == 2
\* the connections the server accepts: two clients
Conns == {1, 2}
Chunks == {"x", "y"}
TermParams == StringsUpTo(MaxParamLen)
Revisions == {"basic", "path", "project"}

\* the project used when the query has none
DefaultProject == <<"d", "e", "f", "a", "u", "l", "t">>

\* directories present on disk when the server starts accepting connections:
\* the root and its ancestors, one project (a) and a sibling of the root (aa)
InitDirs ==
  { <<"/">>, <<"/", "h">>, WORKSPACE_ROOT, WORKSPACE_ROOT \o <<"/", "a">>,
    <<"/", "h", "/", "a", "a">> }

\* fs.existsSync(p)
Exists(existing, p) == AbsFromSegs(SegsOf(p)) \in existing

(* ------------------------------ JS values ------------------------------ *)
Absent == [t |-> "absent", n |-> 0, s |-> ""]
Num(n) == [t |-> "num", n |-> n, s |-> ""]
Str(s) == [t |-> "str", n |-> 0, s |-> s]

\* `v || d`: the default replaces undefined, 0 and ''
OrDefault(v, d) ==
  IF v.t = "absent" \/ (v.t = "num" /\ v.n = 0) \/ (v.t = "str" /\ v.s = "") THEN d ELSE v

(* --------------------------- inbound frames ---------------------------- *)
RawInput == "ls -la\n"
JsonNumber == "1"
JsonNull == "null"
JsonOther == "{\"type\":\"input\"}"
Resize120x40 == "{\"type\":\"resize\",\"cols\":120,\"rows\":40}"
ResizeNoDims == "{\"type\":\"resize\"}"
ResizeNegative == "{\"type\":\"resize\",\"cols\":-1,\"rows\":24}"
ResizeText == "{\"type\":\"resize\",\"cols\":\"x\",\"rows\":24}"

Frames ==
  { RawInput, JsonNumber, JsonNull, JsonOther,
    Resize120x40, ResizeNoDims, ResizeNegative, ResizeText }

Parsed(kind, type, cols, rows) == [kind |-> kind, type |-> type, cols |-> cols, rows |-> rows]

\* JSON.parse(msg.toString()) on the frames above: the parsed value, or
\* kind "throw" for text that is not JSON
JSONParse(f) ==
  CASE f = JsonNumber     -> Parsed("number", "", Absent, Absent)
    [] f = JsonNull       -> Parsed("null", "", Absent, Absent)
    [] f = JsonOther      -> Parsed("object", "input", Absent, Absent)
    [] f = Resize120x40   -> Parsed("object", "resize", Num(120), Num(40))
    [] f = ResizeNoDims   -> Parsed("object", "resize", Absent, Absent)
    [] f = ResizeNegative -> Parsed("object", "resize", Num(0 - 1), Num(24))
    [] f = ResizeText     -> Parsed("object", "resize", Str("x"), Num(24))
    [] OTHER              -> Parsed("throw", "", Absent, Absent)

(* ------------------------- calls a handler makes ----------------------- *)
FxPath(op, p) == [op |-> op, path |-> p, data |-> "", cols |-> Absent, rows |-> Absent]
FxData(op, d) == [op |-> op, path |-> <<>>, data |-> d, cols |-> Absent, rows |-> Absent]
FxResize(c, r, how) == [op |-> "resize", path |-> <<>>, data |-> how, cols |-> c, rows |-> r]
FxOp(op) == FxData(op, "")

\* a handler's run: the calls it made, in order, and whether an exception
\* left the handler
Done(calls) == [fx |-> calls, uncaught |-> FALSE]
Escaped(calls) == [fx |-> calls, uncaught |-> TRUE]

DiagProject == "Project '${project}' not found."
DiagPath == "Path '${relPath}' not found."
DiagServerError == "Server error"

\* ptyProcess.resize(cols, rows) throws on a dimension that is not a positive
\* number, and on a closed pty when the ioctl fails (nativeFail)
BadDim(v) == v.t # "num" \/ v.n <= 0
ResizeThrows(cols, rows, nativeFail) == BadDim(cols) \/ BadDim(rows) \/ nativeFail
ResizeCall(cols, rows, nativeFail) ==
  FxResize(cols, rows, IF ResizeThrows(cols, rows, nativeFail) THEN "throws" ELSE "ok")

\* pty.spawn(...) followed by the three handler registrations
StartSession(cwd) ==
  <<FxPath("spawn", cwd), FxOp("onData"), FxOp("onMessage"), FxOp("onClose")>>

(* ------------------------ wss.on('connection') ------------------------- *)
\* faulty variant: the not-found branch without its `return`
onConnectionBasic_NoReturn(param, existing, spawnFails) ==
  LET project == IF param = <<>> THEN DefaultProject ELSE param
      resolved == PathJoin(WORKSPACE_ROOT, PathBasename(project))
      probe == <<FxPath("existsSync", resolved)>>
  IN  IF ~Exists(existing, resolved)
      THEN Done(probe \o <<FxData("send", DiagProject), FxOp("close")>> \o StartSession(resolved))
      ELSE IF spawnFails
           THEN Escaped(probe \o <<FxPath("spawnFailed", resolved)>>)
           ELSE Done(probe \o StartSession(resolved))

onConnectionBasic(param, existing, spawnFails) ==
  LET project == IF param = <<>> THEN DefaultProject ELSE param
      resolved == PathJoin(WORKSPACE_ROOT, PathBasename(project))
      probe == <<FxPath("existsSync", resolved)>>
  IN  IF ~Exists(existing, resolved)
      THEN Done(probe \o <<FxData("send", DiagProject), FxOp("close")>>)
      ELSE IF spawnFails
           THEN Escaped(probe \o <<FxPath("spawnFailed", resolved)>>)
           ELSE Done(probe \o StartSession(resolved))

onConnectionPath(param, existing, spawnFails) ==
  LET relPath == IF param = <<>> THEN <<".">> ELSE param
      safe == resolveSafe(relPath)
      projectDir == safe.resolved
      probe == <<FxPath("existsSync", projectDir)>>
      caught == <<FxData("send", DiagServerError), FxOp("close")>>
  IN  IF ~safe.ok
      THEN Done(caught)
      ELSE IF ~Exists(existing, projectDir)
           THEN Done(probe \o <<FxData("send", DiagPath), FxOp("close")>>)
           ELSE IF spawnFails
                THEN Done(probe \o <<FxPath("spawnFailed", projectDir)>> \o caught)
                ELSE Done(probe \o StartSession(projectDir))

onConnectionProject(param, existing, spawnFails) ==
  LET project == IF param = <<>> THEN DefaultProject ELSE param
      safeProject == PathBasename(project)
      projectDir == PathJoin(WORKSPACE_ROOT, safeProject)
      probe == <<FxPath("existsSync", projectDir)>>
  IN  IF ~Exists(existing, projectDir)
      THEN Done(probe \o <<FxData("send", DiagProject), FxOp("close")>>)
      ELSE IF spawnFails
           THEN Escaped(probe \o <<FxPath("spawnFailed", projectDir)>>)
           ELSE Done(probe \o StartSession(projectDir))

onConnection(r, param, existing, spawnFails) ==
  CASE r = "basic"   -> onConnectionBasic(param, existing, spawnFails)
    [] r = "path"    -> onConnectionPath(param, existing, spawnFails)
    [] r = "project" -> onConnectionProject(param, existing, spawnFails)

(* -------------------------- ptyProcess.onData -------------------------- *)
\* ws.send on a connection that is no longer open either does nothing or
\* throws, depending on the ws release (sendThrows)
onDataBasic(data, wsOpen, sendThrows) ==
  IF ~wsOpen /\ sendThrows
  THEN Escaped(<<FxData("send", data)>>)
  ELSE Done(<<FxData("send", data)>>)

\* faulty variant: the chunk is sent twice
onDataPath_Twice(data, wsOpen, sendThrows) ==
  Done(<<FxData("send", data), FxData("send", data)>>)

onDataPath(data, wsOpen, sendThrows) == Done(<<FxData("send", data)>>)

onDataProject(data, wsOpen, sendThrows) == Done(<<FxData("send", data)>>)

onData(r, data, wsOpen, sendThrows) ==
  CASE r = "basic"   -> onDataBasic(data, wsOpen, sendThrows)
    [] r = "path"    -> onDataPath(data, wsOpen, sendThrows)
    [] r = "project" -> onDataProject(data, wsOpen, sendThrows)

(* --------------------------- ws.on('message') -------------------------- *)
\* one try block around the parse and the resize; its catch writes the frame
onMessageBasic(msg, nativeFail) ==
  LET data == JSONParse(msg)
      write == FxData("write", msg)
  IN  IF data.kind = "throw" \/ data.kind = "null"
      THEN Done(<<write>>)
      ELSE IF data.type = "resize"
           THEN IF ResizeThrows(data.cols, data.rows, nativeFail)
                THEN Done(<<ResizeCall(data.cols, data.rows, nativeFail), write>>)
                ELSE Done(<<ResizeCall(data.cols, data.rows, nativeFail)>>)
           ELSE Done(<<>>)

\* the try block returns after a resize that succeeded; an exception from the
\* parse or from the resize is swallowed and the frame is written
onMessagePath(msg, nativeFail) ==
  LET parsed == JSONParse(msg)
      write == FxData("write", msg)
      cols == OrDefault(parsed.cols, Num(80))
      rows == OrDefault(parsed.rows, Num(24))
  IN  IF parsed.kind = "object" /\ parsed.type = "resize"
      THEN IF ResizeThrows(cols, rows, nativeFail)
           THEN Done(<<ResizeCall(cols, rows, nativeFail), write>>)
           ELSE Done(<<ResizeCall(cols, rows, nativeFail)>>)
      ELSE Done(<<write>>)

onMessageProject(msg, nativeFail) ==
  LET parsed == JSONParse(msg)
      write == FxData("write", msg)
      cols == OrDefault(parsed.cols, Num(80))
      rows == OrDefault(parsed.rows, Num(24))
  IN  IF parsed.kind = "object" /\ parsed.type = "resize"
      THEN IF ResizeThrows(cols, rows, nativeFail)
           THEN Done(<<ResizeCall(cols, rows, nativeFail), write>>)
           ELSE Done(<<ResizeCall(cols, rows, nativeFail)>>)
      ELSE Done(<<write>>)

onMessage(r, msg, nativeFail) ==
  CASE r = "basic"   -> onMessageBasic(msg, nativeFail)
    [] r = "path"    -> onMessagePath(msg, nativeFail)
    [] r = "project" -> onMessageProject(msg, nativeFail)

(* ---------------------------- ws.on('close') --------------------------- *)
\* ptyProcess.kill() may throw on a process that is gone (killThrows)
onCloseBasic(killThrows) ==
  IF killThrows THEN Escaped(<<FxOp("kill")>>) ELSE Done(<<FxOp("kill")>>)

\* faulty variant: the close handler forgets the process
onClosePath_NoKill(killThrows) == Done(<<>>)

onClosePath(killThrows) == Done(<<FxOp("kill")>>)

onCloseProject(killThrows) == Done(<<FxOp("kill")>>)

onClose(r, killThrows) ==
  CASE r = "basic"   -> onCloseBasic(killThrows)
    [] r = "path"    -> onClosePath(killThrows)
    [] r = "project" -> onCloseProject(killThrows)

(* ------------------------------ file APIs ------------------------------ *)
\* the disk is the set of directories D and the set of regular files F, each
\* a canonical absolute path

\* p, its parent, its parent's parent, ... up to the filesystem root
Ancestors(p) ==
  LET segs == SegsOf(p)
  IN  {AbsFromSegs(SubSeq(segs, 1, k)) : k \in 0..Len(segs)}

\* path.dirname(p) of a canonical absolute path
PathDirname(p) ==
  LET segs == SegsOf(p)
  IN  AbsFromSegs(SubSeq(segs, 1, Len(segs) - 1))

\* fsPromises.mkdir(p, { recursive: true }) rejects (EEXIST, ENOTDIR) when p or
\* a directory on the way to it is a regular file, before it creates anything
MkdirThrows(F, p) == Ancestors(p) \cap F # {}
\* and creates p with every missing parent otherwise
Mkdir(D, p) == D \cup Ancestors(p)

\* fsPromises.rm(p, { recursive: true, force: true }): p and all below it go
RmRecursive(S, p) == {q \in S : q # p /\ ~StartsWith(q, p \o <<"/">>)}

\* what a request handler did: the response status, its filesystem calls in
\* order, and the disk it leaves behind
Resp(status, calls, D, F) == [status |-> status, fx |-> calls, dirs |-> D, files |-> F]

\* a request the handler refuses before it touches the disk
Refused(D, F) == Resp(400, <<>>, D, F)

\* existsSync + readdir of GET /api/files; readdir rejects on a regular file
ListDir(target, D, F) ==
  IF ~target.ok THEN Refused(D, F)
  ELSE IF target.resolved \notin D \cup F
       THEN Resp(404, <<FxPath("existsSync", target.resolved)>>, D, F)
       ELSE Resp(IF target.resolved \in F THEN 400 ELSE 200,
                 <<FxPath("existsSync", target.resolved), FxPath("readdir", target.resolved)>>,
                 D, F)

\* existsSync + readFile of GET /api/file; readFile rejects on a directory
ReadFile(target, D, F) ==
  IF ~target.ok THEN Refused(D, F)
  ELSE IF target.resolved \notin D \cup F
       THEN Resp(404, <<FxPath("existsSync", target.resolved)>>, D, F)
       ELSE Resp(IF target.resolved \in D THEN 400 ELSE 200,
                 <<FxPath("existsSync", target.resolved), FxPath("readFile", target.resolved)>>,
                 D, F)

\* mkdir(parent) + writeFile of POST /api/file, after the calls `pre`;
\* writeFile rejects on a directory
WriteFile(pre, abs, parent, D, F) ==
  IF MkdirThrows(F, parent) THEN Resp(400, pre \o <<FxPath("mkdir", parent)>>, D, F)
  ELSE Resp(IF abs \in D \cup Ancestors(parent) THEN 400 ELSE 200,
            pre \o <<FxPath("mkdir", parent), FxPath("writeFile", abs)>>,
            Mkdir(D, parent),
            IF abs \in D \cup Ancestors(parent) THEN F ELSE F \cup {abs})

\* mkdir of POST /api/mkdir, after the calls `pre`
MakeDir(pre, abs, D, F) ==
  IF MkdirThrows(F, abs) THEN Resp(400, pre \o <<FxPath("mkdir", abs)>>, D, F)
  ELSE Resp(200, pre \o <<FxPath("mkdir", abs)>>, Mkdir(D, abs), F)

\* lstat + rm / unlink of POST /api/delete; lstat rejects on a missing path
Delete(target, D, F) ==
  IF ~target.ok THEN Refused(D, F)
  ELSE IF target.resolved \notin D \cup F
       THEN Resp(400, <<FxPath("lstat", target.resolved)>>, D, F)
       ELSE IF target.resolved \in D
            THEN Resp(200, <<FxPath("lstat", target.resolved), FxPath("rm", target.resolved)>>,
                      RmRecursive(D, target.resolved), RmRecursive(F, target.resolved))
            ELSE Resp(200, <<FxPath("lstat", target.resolved), FxPath("unlink", target.resolved)>>,
                      D, F \ {target.resolved})

\* ---- path-scoped revision
apiFilesPath(q, D, F) == ListDir(resolveSafe(IF q = <<>> THEN <<".">> ELSE q), D, F)

apiFilePath(q, D, F) == IF q = <<>> THEN Refused(D, F) ELSE ReadFile(resolveSafe(q), D, F)

WriteAt(abs, D, F) ==
  IF ~abs.ok THEN Refused(D, F)
  ELSE WriteFile(<<>>, abs.resolved, PathDirname(abs.resolved), D, F)

apiWritePath(q, D, F) == IF q = <<>> THEN Refused(D, F) ELSE WriteAt(resolveSafe(q), D, F)

MakeDirAt(abs, D, F) ==
  IF ~abs.ok THEN Refused(D, F) ELSE MakeDir(<<>>, abs.resolved, D, F)

apiMkdirPath(q, D, F) == IF q = <<>> THEN Refused(D, F) ELSE MakeDirAt(resolveSafe(q), D, F)

apiDeletePath(q, D, F) == IF q = <<>> THEN Refused(D, F) ELSE Delete(resolveSafe(q), D, F)

\* ---- project-scoped revision
apiFilesProject(project, q, D, F) ==
  IF project = <<>> THEN Refused(D, F)
  ELSE ListDir(resolveWorkspacePath(project, IF q = <<>> THEN <<".">> ELSE q), D, F)

apiFileProject(project, q, D, F) ==
  IF project = <<>> \/ q = <<>> THEN Refused(D, F)
  ELSE ReadFile(resolveWorkspacePath(project, q), D, F)

\* "ensure project root exists": a missing project root is created first
EnsureProjectRoot(projectRoot, D, F) ==
  IF projectRoot \in D \cup F THEN Resp(200, <<FxPath("existsSync", projectRoot)>>, D, F)
  ELSE Resp(IF MkdirThrows(F, projectRoot) THEN 400 ELSE 200,
            <<FxPath("existsSync", projectRoot), FxPath("mkdir", projectRoot)>>,
            IF MkdirThrows(F, projectRoot) THEN D ELSE Mkdir(D, projectRoot),
            F)

WriteAfter(root, filePath) ==
  IF root.status # 200 THEN root
  ELSE WriteFile(root.fx, filePath, PathDirname(filePath), root.dirs, root.files)

WriteInProject(ws, D, F) ==
  IF ~ws.ok THEN Refused(D, F)
  ELSE WriteAfter(EnsureProjectRoot(ws.projectRoot, D, F), ws.resolved)

apiWriteProject(project, q, D, F) ==
  IF project = <<>> \/ q = <<>> THEN Refused(D, F)
  ELSE WriteInProject(resolveWorkspacePath(project, q), D, F)

MakeDirAfter(root, dirPath) ==
  IF root.status # 200 THEN root ELSE MakeDir(root.fx, dirPath, root.dirs, root.files)

\* faulty variant: a missing project root is answered with 404
MakeDirInProject_RequireRoot(ws, D, F) ==
  IF ~ws.ok THEN Refused(D, F)
  ELSE IF ws.projectRoot \notin D \cup F
       THEN Resp(404, <<FxPath("existsSync", ws.projectRoot)>>, D, F)
       ELSE MakeDir(<<FxPath("existsSync", ws.projectRoot)>>, ws.resolved, D, F)

MakeDirInProject(ws, D, F) ==
  IF ~ws.ok THEN Refused(D, F)
  ELSE MakeDirAfter(EnsureProjectRoot(ws.projectRoot, D, F), ws.resolved)

apiMkdirProject(project, q, D, F) ==
  IF project = <<>> \/ q = <<>> THEN Refused(D, F)
  ELSE MakeDirInProject(resolveWorkspacePath(project, q), D, F)

apiDeleteProject(project, q, D, F) ==
  IF project = <<>> \/ q = <<>> THEN Refused(D, F)
  ELSE Delete(resolveWorkspacePath(project, q), D, F)

(* ------------------------------- state --------------------------------- *)
VARIABLES
  arg,      \* the inputs of the sandbox helper under test
  res,      \* what the helper did with them
  rev,      \* which revision of the server is running
  dirs,     \* the directories that exist on disk
  conn,     \* per connection: socket, shell process and what passed through
  last,     \* the event the server handled last
  fx,       \* the calls the last handler made, in order
  crashed,  \* an exception left a handler: the node process is gone
  files,    \* the regular files that exist on disk
  req,      \* the file API request the server answered last
  served    \* how many file API requests it has answered

vars == <<arg, res, rev, dirs, conn, last, fx, crashed, files, req, served>>
pathVars == <<arg, res>>
serverVars == <<rev, dirs, conn, last, fx, crashed, files, req, served>>

\* no file API request answered yet
NoRequest ==
  [op |-> "none", project |-> <<>>, status |-> 0, accepted |-> FALSE,
   rootExisted |-> FALSE, targetExisted |-> FALSE]

NoResult == [fn |-> "none", ok |-> FALSE, projectRoot |-> <<>>, resolved |-> <<>>, err |-> ""]

Applied(fn, r) ==
  [fn |-> fn, ok |-> r.ok, projectRoot |-> r.projectRoot, resolved |-> r.resolved, err |-> r.err]

NoConn ==
  [ws |-> "none", closedBy |-> "", pty |-> "none", handlers |-> {},
   sent |-> <<>>, emitted |-> <<>>, kills |-> 0]

Event(ev, c, param, msg) == [ev |-> ev, conn |-> c, param |-> param, msg |-> msg]

\* what one call does to the connection it is made on
ApplyCall(s, e) ==
  CASE e.op = "send" ->
         IF s.ws = "open" THEN [s EXCEPT !.sent = Append(@, e.data)] ELSE s
    [] e.op = "close" ->
         IF s.ws = "open" THEN [s EXCEPT !.ws = "closed", !.closedBy = "server"] ELSE s
    [] e.op = "spawn" -> [s EXCEPT !.pty = "running"]
    [] e.op \in {"onData", "onMessage", "onClose"} ->
         [s EXCEPT !.handlers = @ \cup {e.op}]
    [] e.op = "kill" -> [s EXCEPT !.kills = @ + 1]
    [] OTHER -> s

RECURSIVE ApplyFx(_, _)
ApplyFx(s, calls) ==
  IF calls = <<>> THEN s ELSE ApplyFx(ApplyCall(s, Head(calls)), Tail(calls))

\* an exception that leaves a handler is uncaught: the node process exits and
\* every connection it still holds open is dropped
AfterHandler(cs, uncaught) ==
  IF uncaught
  THEN [c \in Conns |->
          IF cs[c].ws = "open" THEN [cs[c] EXCEPT !.ws = "closed", !.closedBy = "crash"]
          ELSE cs[c]]
  ELSE cs

ServerInit ==
  /\ rev \in Revisions
  /\ dirs = InitDirs
  /\ conn = [c \in Conns |-> NoConn]
  /\ last = Event("start", 0, <<>>, "")
  /\ fx = <<>>
  /\ crashed = FALSE
  /\ files = {}
  /\ req = NoRequest
  /\ served = 0

Init ==
  /\ arg = [project |-> <<>>, rel |-> <<>>]
  /\ res = NoResult
  /\ ServerInit

\* a client opens /term?path=param or /term?project=param
Connect(c) ==
  /\ ~crashed
  /\ conn[c].ws = "none"
  /\ \A d \in Conns : d < c => conn[d].ws # "none"
  /\ \E param \in TermParams, spawnFails \in BOOLEAN :
       LET out == onConnection(rev, param, dirs, spawnFails)
       IN  /\ conn' = AfterHandler([conn EXCEPT ![c] = ApplyFx([@ EXCEPT !.ws = "open"], out.fx)],
                                   out.uncaught)
           /\ fx' = out.fx
           /\ crashed' = out.uncaught
           /\ last' = Event("connect", c, param, "")
  /\ UNCHANGED <<arg, res, rev, dirs, files, req, served>>

\* a frame arrives on an open connection
ClientMessage(c) ==
  /\ ~crashed
  /\ conn[c].ws = "open"
  /\ "onMessage" \in conn[c].handlers
  /\ \E msg \in Frames, nativeFail \in BOOLEAN :
       /\ nativeFail => conn[c].pty # "running"
       /\ LET out == onMessage(rev, msg, nativeFail)
          IN  /\ conn' = AfterHandler([conn EXCEPT ![c] = ApplyFx(@, out.fx)], out.uncaught)
              /\ fx' = out.fx
              /\ crashed' = out.uncaught
       /\ last' = Event("message", c, <<>>, msg)
  /\ UNCHANGED <<arg, res, rev, dirs, files, req, served>>

RECURSIVE EmittedBy(_, _)
EmittedBy(cs, among) ==
  IF among = {} THEN 0
  ELSE LET c == CHOOSE x \in among : TRUE
       IN  Len(cs[c].emitted) + EmittedBy(cs, among \ {c})

\* the shell process emits a chunk of output
PtyData(c) ==
  /\ ~crashed
  /\ conn[c].pty = "running"
  /\ "onData" \in conn[c].handlers
  /\ EmittedBy(conn, Conns) < MaxChunks
  /\ \E data \in Chunks, sendThrows \in BOOLEAN :
       /\ sendThrows => conn[c].ws # "open"
       /\ LET out == onData(rev, data, conn[c].ws = "open", sendThrows)
          IN  /\ conn' = AfterHandler([conn EXCEPT ![c] =
                            ApplyFx([@ EXCEPT !.emitted = Append(@, data)], out.fx)],
                                      out.uncaught)
              /\ fx' = out.fx
              /\ crashed' = out.uncaught
       /\ last' = Event("data", c, <<>>, data)
  /\ UNCHANGED <<arg, res, rev, dirs, files, req, served>>

\* the shell process exits; no revision registers an exit handler
PtyExit(c) ==
  /\ ~crashed
  /\ conn[c].pty = "running"
  /\ conn' = [conn EXCEPT ![c].pty = "exited"]
  /\ fx' = <<>>
  /\ last' = Event("exit", c, <<>>, "")
  /\ UNCHANGED <<arg, res, rev, dirs, crashed, files, req, served>>

\* the client closes the connection: the socket's 'close' event fires once
ClientClose(c) ==
  /\ ~crashed
  /\ conn[c].ws = "open"
  /\ \E killThrows \in BOOLEAN :
       /\ killThrows => conn[c].pty # "running"
       /\ LET out == IF "onClose" \in conn[c].handlers
                     THEN onClose(rev, killThrows) ELSE Done(<<>>)
          IN  /\ conn' = AfterHandler([conn EXCEPT ![c] =
                            ApplyFx([@ EXCEPT !.ws = "closed", !.closedBy = "client"], out.fx)],
                                      out.uncaught)
              /\ fx' = out.fx
              /\ crashed' = out.uncaught
  /\ last' = Event("close", c, <<>>, "")
  /\ UNCHANGED <<arg, res, rev, dirs, files, req, served>>

ClientStep == \E c \in Conns : Connect(c) \/ ClientMessage(c)

PtyStep == \E c \in Conns : PtyData(c) \/ PtyExit(c)

CloseStep == \E c \in Conns : ClientClose(c)

Next == ClientStep \/ PtyStep \/ CloseStep

Spec == Init /\ [][Next]_vars

\* a running shell goes on (it emits output or exits) and the event loop runs
\* the handler of each of its events; nothing obliges a client to send a frame
\* or to close its connection
FairSpec == Spec /\ WF_vars(PtyStep)

(* ------------------- the sandbox helpers on their own ------------------ *)
PathInit ==
  /\ arg \in [project : ProjCandidates, rel : RelCandidates]
  /\ res = NoResult
  /\ ServerInit
  /\ rev = "path"

CallResolveSafe ==
  /\ res.fn = "none"
  /\ arg.project = <<>>
  /\ res' = Applied("resolveSafe", resolveSafe(arg.rel))
  /\ UNCHANGED <<arg, serverVars>>

CallResolveWorkspacePath ==
  /\ res.fn = "none"
  /\ res' = Applied("resolveWorkspacePath", resolveWorkspacePath(arg.project, arg.rel))
  /\ UNCHANGED <<arg, serverVars>>

\* arg.rel is '' or a canonical absolute suffix ('/x', '/x/y'): appended to
\* WORKSPACE_ROOT it names the root or one of its descendants
IsCanonicalSuffix(rel) == rel = <<>> \/ JoinSegs(SegsOf(rel)) = rel

\* the path a listing reports with toRel comes back as a request path
CallRoundTrip ==
  /\ res.fn = "none"
  /\ arg.project = <<>>
  /\ IsCanonicalSuffix(arg.rel)
  /\ res' = Applied("roundTrip", resolveSafe(toRel(WORKSPACE_ROOT \o arg.rel)))
  /\ UNCHANGED <<arg, serverVars>>

PathNext == CallResolveSafe \/ CallResolveWorkspacePath \/ CallRoundTrip

PathSpec == PathInit /\ [][PathNext]_vars

(* --------------------------- file API requests ------------------------- *)
\* file API requests the server answers in one run
MaxRequests == 2

\* `project` and `path` of a request: absent, the directory itself, its
\* parent, a name, a nested name, a sibling by prefix, an absolute path
ApiProjects == {<<>>, <<".">>, <<".", ".">>, <<"a">>, <<"b">>}
ApiPaths ==
  { <<>>, <<".">>, <<"b">>, <<"a", "/", "b">>, <<".", ".", "/", "a", "b">>,
    <<"/", "a">> }

\* what the handler of `op` gets from the sandbox helper of its revision for
\* the request, or the 400 it answers before calling the helper
Addressed(r, op, project, q) ==
  LET rel == IF q = <<>> /\ op = "list" THEN <<".">> ELSE q
  IN  IF rel = <<>> \/ (r = "project" /\ project = <<>>) THEN Thrown("required")
      ELSE IF r = "path" THEN resolveSafe(rel)
      ELSE resolveWorkspacePath(project, rel)

\* the directory the request is confined to
ContainmentRoot(r, project) == IF r = "path" THEN WORKSPACE_ROOT ELSE ProjectRootOf(project)

\* the response goes out: the disk is as the handler left it
Answered(op, project, addressed, out) ==
  /\ dirs' = out.dirs
  /\ files' = out.files
  /\ fx' = out.fx
  /\ req' = [op |-> op, project |-> project, status |-> out.status,
             accepted |-> addressed.ok,
             rootExisted |->
               (rev = "project" /\ project = <<>>)
                 \/ ContainmentRoot(rev, project) \in dirs \cup files,
             targetExisted |-> addressed.ok /\ addressed.resolved \in dirs \cup files]
  /\ served' = served + 1
  /\ UNCHANGED <<arg, res, rev, conn, last, crashed>>

\* the `project` values a request can carry in the running revision
ProjectsOf(r) == IF r = "path" THEN {<<>>} ELSE ApiProjects

\* GET /api/files
ApiList ==
  /\ served < MaxRequests
  /\ \E project \in ProjectsOf(rev), q \in ApiPaths :
       Answered("list", project, Addressed(rev, "list", project, q),
                IF rev = "path" THEN apiFilesPath(q, dirs, files)
                ELSE apiFilesProject(project, q, dirs, files))

\* GET /api/file
ApiRead ==
  /\ served < MaxRequests
  /\ \E project \in ProjectsOf(rev), q \in ApiPaths :
       Answered("read", project, Addressed(rev, "read", project, q),
                IF rev = "path" THEN apiFilePath(q, dirs, files)
                ELSE apiFileProject(project, q, dirs, files))

\* POST /api/file
ApiWrite ==
  /\ served < MaxRequests
  /\ \E project \in ProjectsOf(rev), q \in ApiPaths :
       Answered("write", project, Addressed(rev, "write", project, q),
                IF rev = "path" THEN apiWritePath(q, dirs, files)
                ELSE apiWriteProject(project, q, dirs, files))

\* POST /api/mkdir
ApiMkdir ==
  /\ served < MaxRequests
  /\ \E project \in ProjectsOf(rev), q \in ApiPaths :
       Answered("mkdir", project, Addressed(rev, "mkdir", project, q),
                IF rev = "path" THEN apiMkdirPath(q, dirs, files)
                ELSE apiMkdirProject(project, q, dirs, files))

\* POST /api/delete
ApiDelete ==
  /\ served < MaxRequests
  /\ \E project \in ProjectsOf(rev), q \in ApiPaths :
       Answered("delete", project, Addressed(rev, "delete", project, q),
                IF rev = "path" THEN apiDeletePath(q, dirs, files)
                ELSE apiDeleteProject(project, q, dirs, files))

FsInit == Init /\ rev \in {"path", "project"}

FsNext == ApiList \/ ApiRead \/ ApiWrite \/ ApiMkdir \/ ApiDelete

FsSpec == FsInit /\ [][FsNext]_vars

(* ------------------------------ claims --------------------------------- *)
Writes == SelectSeq(fx, LAMBDA e : e.op = "write")
Kills == SelectSeq(fx, LAMBDA e : e.op = "kill")
\* the last handler's calls, the existence probe left out
AfterProbe == SelectSeq(fx, LAMBDA e : e.op # "existsSync")

\* the calls that take a path: filesystem operations and the shell's cwd
PathOps == {"existsSync", "spawn", "spawnFailed"}

\* the frame is a resize control message
IsResizeFrame(f) == JSONParse(f).kind = "object" /\ JSONParse(f).type = "resize"

\* the directory a /term request asks for, as the running revision derives it
RequestRefused(param) ==
  IF rev = "path"
  THEN LET safe == resolveSafe(IF param = <<>> THEN <<".">> ELSE param)
       IN  ~safe.ok \/ ~Exists(dirs, safe.resolved)
  ELSE ~Exists(dirs, PathJoin(WORKSPACE_ROOT,
                              PathBasename(IF param = <<>> THEN DefaultProject ELSE param)))

\* C1: every path handed to a filesystem operation or used as the working
\* directory of a spawned shell is WORKSPACE_ROOT or a descendant of it, in
\* every revision and for every value of the request parameter.
C1_ClaimPathsStayInsideRoot ==
  \A i \in 1..Len(fx) : fx[i].op \in PathOps => IsWithin(fx[i].path, WORKSPACE_ROOT)

\* C2: for every candidate, resolveSafe returns WORKSPACE_ROOT or a proper
\* descendant of it, or throws the outside-workspace error; it never returns
\* a path outside the root, such as a sibling whose name extends the root's.
C2_ResolveSafeContained ==
  res.fn = "resolveSafe" =>
    IF res.ok
    THEN res.resolved = WORKSPACE_ROOT \/ IsProperDescendant(res.resolved, WORKSPACE_ROOT)
    ELSE res.err = ErrOutsideRoot

\* resolveSafe was given a traversal that ends in a sibling extending the
\* root's name and refused it
C2_Witness ==
  /\ res.fn = "resolveSafe"
  /\ arg.rel = <<".", ".", "/", "a", "a">>
  /\ ~res.ok

\* C3: resolveWorkspacePath returns `resolved` only when it equals projectRoot
\* or has projectRoot followed by a separator as a literal prefix.
C3_ClaimResolvedInsideProject ==
  (res.fn = "resolveWorkspacePath" /\ res.ok) =>
    \/ res.resolved = res.projectRoot
    \/ StartsWith(res.resolved, res.projectRoot \o <<"/">>)

\* C4: a /term request whose path or project the sandbox rejects, or that does
\* not exist on disk, gets exactly one text frame and is then closed; no shell
\* is spawned and no handler is installed for it, then or later.
C4_RefusedConnectionOneFrameThenClosed ==
  /\ (last.ev = "connect" /\ RequestRefused(last.param)) =>
       /\ Len(AfterProbe) = 2
       /\ AfterProbe[1].op = "send"
       /\ AfterProbe[2].op = "close"
       /\ Len(conn[last.conn].sent) = 1
       /\ conn[last.conn].ws = "closed"
       /\ conn[last.conn].closedBy = "server"
  /\ \A c \in Conns :
       conn[c].closedBy = "server" =>
         /\ Len(conn[c].sent) = 1
         /\ conn[c].pty = "none"
         /\ conn[c].handlers = {}

\* the path revision has just refused a request that resolveSafe rejects
C4_Witness ==
  /\ last.ev = "connect"
  /\ rev = "path"
  /\ ~resolveSafe(IF last.param = <<>> THEN <<".">> ELSE last.param).ok
  /\ conn[last.conn].ws = "closed"

\* C5: a frame that parses as an object whose type is `resize` is never
\* written to the shell's input, whatever its cols and rows and whether or not
\* the resize call succeeds.
C5_ClaimResizeNeverWritten ==
  (last.ev = "message" /\ IsResizeFrame(last.msg)) => Writes = <<>>

\* C6: every inbound frame that is not a resize control message is written to
\* the shell's input exactly once and unchanged, in every revision.
C6_ClaimOtherFramesWrittenOnce ==
  (last.ev = "message" /\ ~IsResizeFrame(last.msg)) =>
    (Len(Writes) = 1 /\ Writes[1].data = last.msg)

\* C7: once the shell process has exited while its connection is open, the
\* connection is eventually closed.
C7_ClaimExitClosesConnection ==
  \A c \in Conns :
    (conn[c].pty = "exited" /\ conn[c].ws = "open") ~> (conn[c].ws = "closed" \/ crashed)

\* C8: kill is issued exactly once when the connection closes while the shell
\* is running, only on a connection close, and never more than once a session.
C8_KillOnceOnClose ==
  /\ \A c \in Conns :
       /\ conn[c].kills <= 1
       /\ conn[c].kills = 1 => (conn[c].ws = "closed" /\ conn[c].closedBy = "client")
  /\ (last.ev = "close" /\ conn[last.conn].pty = "running") =>
       (Len(Kills) = 1 /\ conn[last.conn].kills = 1)

\* a connection has just been closed by its client with the shell running
C8_Witness ==
  /\ last.ev = "close"
  /\ conn[last.conn].pty = "running"
  /\ conn[last.conn].kills = 1

\* C10: while a session's connection is open, the frames sent on it are the
\* chunks its shell emitted: each once, unmodified, in emission order.
C10_OutputForwardedInOrder ==
  \A c \in Conns :
    (conn[c].pty # "none" /\ conn[c].ws = "open") => conn[c].sent = conn[c].emitted

\* an open session has forwarded two different chunks
C10_Witness ==
  \E c \in Conns :
    /\ conn[c].ws = "open"
    /\ conn[c].emitted = <<"y", "x">>
    /\ conn[c].sent = <<"y", "x">>

Resizes == SelectSeq(fx, LAMBDA e : e.op = "resize")
SpawnFailures == SelectSeq(fx, LAMBDA e : e.op = "spawnFailed")

\* C11: an error raised by sending output to a closed connection, or by
\* signalling an exited process on close, is caught inside the session's own
\* callback: no exception leaves the data or the close callback.
C11_ClaimMidSessionErrorsCaught ==
  last.ev \in {"data", "close"} => ~crashed

\* C12: when creating the shell process fails, the connection gets a single
\* diagnostic frame and is closed by the handler, no handler is installed and
\* the error does not leave the connection handler.
C12_ClaimSpawnFailureSurfaced ==
  (last.ev = "connect" /\ SpawnFailures # <<>>) =>
    /\ ~crashed
    /\ Len(SpawnFailures) = 1
    /\ Len(conn[last.conn].sent) = 1
    /\ conn[last.conn].ws = "closed"
    /\ conn[last.conn].closedBy = "server"
    /\ conn[last.conn].handlers = {}

\* the dimension a resize message asks for: its field when that is a number,
\* the default otherwise
Requested(v, dflt) == IF v.t = "num" THEN v ELSE dflt

\* C13: a resize control message resizes the process to (cols, rows), each
\* the message's field when it is a number and 80 or 24 when the field is
\* absent or not a number.
C13_ClaimResizeDefaults ==
  (last.ev = "message" /\ IsResizeFrame(last.msg)) =>
    /\ Len(Resizes) = 1
    /\ Resizes[1].cols = Requested(JSONParse(last.msg).cols, Num(80))
    /\ Resizes[1].rows = Requested(JSONParse(last.msg).rows, Num(24))

\* C20: write and resize are never invoked on a shell process that has exited
\* or has been sent the termination signal.
C20_ClaimNoInputToDeadProcess ==
  (last.ev = "message" /\ (Writes # <<>> \/ Resizes # <<>>)) =>
    (conn[last.conn].pty = "running" /\ conn[last.conn].kills = 0)

\* C16: sessions are independent: a message, output chunk, resize or close
\* on one connection leaves the state of every other session unchanged (its
\* process is not written, resized or killed, nothing is sent on its
\* connection, its connection stays as it was).
C16_ClaimSessionsIndependent ==
  [][ last'.ev \in {"message", "data", "close"} =>
        \A c \in Conns \ {last'.conn} : conn'[c] = conn[c] ]_vars

\* the candidate starts with a path separator
HasLeadingSep(rel) == rel # <<>> /\ rel[1] = "/"
\* no segment of the candidate is '..'
NoParentSegment(rel) == \A i \in 1..Len(Segments(rel)) : Segments(rel)[i] # <<".", ".">>

\* C14 as claimed: in resolveSafe and in resolveWorkspacePath a candidate with
\* leading separators is taken relative to the containment root and resolves
\* to the corresponding location inside it instead of being rejected.
C14_ClaimLeadingSeparatorsRelative ==
  (/\ res.fn \in {"resolveSafe", "resolveWorkspacePath"}
   /\ HasLeadingSep(arg.rel) /\ NoParentSegment(arg.rel)
   /\ (res.fn = "resolveWorkspacePath" => arg.project # <<>>)) =>
    /\ res.ok
    /\ SegsOf(res.resolved) =
         SegsOf(IF res.fn = "resolveSafe" THEN WORKSPACE_ROOT ELSE ProjectRootOf(arg.project))
           \o SegsOf(arg.rel)

\* C14 amended: resolveSafe takes a candidate with leading separators
\* relative to WORKSPACE_ROOT and resolves it inside the root; in
\* resolveWorkspacePath the candidate stays absolute: it is resolved against
\* the filesystem root and rejected as outside the project unless that
\* absolute path itself starts with the project root.
C14_LeadingSeparatorsPerVariant ==
  HasLeadingSep(arg.rel) =>
    /\ (res.fn = "resolveSafe" /\ NoParentSegment(arg.rel)) =>
          /\ res.ok
          /\ SegsOf(res.resolved) = SegsOf(WORKSPACE_ROOT) \o SegsOf(arg.rel)
    /\ (res.fn = "resolveWorkspacePath" /\ arg.project # <<>>) =>
          IF StartsWith(AbsFromSegs(SegsOf(arg.rel)), ProjectRootOf(arg.project))
          THEN res.ok /\ res.resolved = AbsFromSegs(SegsOf(arg.rel))
          ELSE ~res.ok /\ res.err = ErrOutsideProject

C14_Witness ==
  /\ res.fn = "resolveWorkspacePath"
  /\ arg.project = <<"a">>
  /\ arg.rel = <<"/", "a">>
  /\ res.err = ErrOutsideProject

\* C17: resolveSafe('.'), resolveSafe('') and resolveSafe() without argument
\* all return WORKSPACE_ROOT.
C17_ResolveSafeOfDotIsRoot ==
  (res.fn = "resolveSafe" /\ arg.rel \in {<<>>, <<".">>}) =>
    (res.ok /\ res.resolved = WORKSPACE_ROOT)

C17_Witness ==
  /\ res.fn = "resolveSafe"
  /\ arg.rel = <<".">>
  /\ res.resolved = WORKSPACE_ROOT

\* C18: for every absolute path p that is WORKSPACE_ROOT or a descendant of
\* it, resolveSafe(toRel(p)) returns p and does not throw.
C18_RoundTrip ==
  res.fn = "roundTrip" => (res.ok /\ res.resolved = WORKSPACE_ROOT \o arg.rel)

C18_Witness ==
  /\ res.fn = "roundTrip"
  /\ arg.rel = <<"/", ".", ".", "a">>
  /\ res.resolved = <<"/", "h", "/", "a", "/", ".", ".", "a">>

\* the last request's calls that create something, and those that change the disk
Creations == SelectSeq(fx, LAMBDA e : e.op \in {"mkdir", "writeFile"})
Mutations == SelectSeq(fx, LAMBDA e : e.op \in {"mkdir", "writeFile", "rm", "unlink"})

\* a request of the project-scoped revision that names a project whose root
\* directory did not exist when the request arrived
OnMissingProjectRoot ==
  rev = "project" /\ req.op # "none" /\ req.project # <<>> /\ ~req.rootExisted

\* C15 as claimed: in the project-scoped revision every file API operation
\* on a project whose root does not exist fails and leaves the filesystem
\* unchanged; it does not create the project root.
C15_ClaimMissingProjectRootRefused ==
  OnMissingProjectRoot =>
    /\ req.status # 200
    /\ Mutations = <<>>
    /\ ProjectRootOf(req.project) \notin dirs \cup files

\* C15 amended: on a project whose root does not exist, list, read and delete
\* never create the root, and fail (404 or 400) leaving the filesystem
\* unchanged when their target does not exist; write file and make directory
\* do not require the root: once the path is accepted they first create the
\* missing project root (mkdir recursive) and then proceed.
C15_MissingProjectRoot ==
  OnMissingProjectRoot =>
    /\ req.op \in {"list", "read", "delete"} =>
          /\ Creations = <<>>
          /\ ProjectRootOf(req.project) \notin dirs \cup files
          /\ ~req.targetExisted => (req.status \in {400, 404} /\ Mutations = <<>>)
    /\ (req.op \in {"write", "mkdir"} /\ req.accepted) =>
          /\ Mutations # <<>>
          /\ Mutations[1] = FxPath("mkdir", ProjectRootOf(req.project))
          /\ \/ ProjectRootOf(req.project) \in dirs
             \/ req.status = 400 /\ Len(Mutations) = 1

C15_Witness ==
  /\ OnMissingProjectRoot
  /\ req.op = "mkdir"
  /\ req.project = <<"b">>
  /\ req.status = 200
  /\ WORKSPACE_ROOT \o <<"/", "b">> \in dirs

\* C19: the workspace root exists in every reachable state: no sequence of
\* file API requests removes WORKSPACE_ROOT or one of its ancestors.
C19_ClaimWorkspaceRootSurvives ==
  Ancestors(WORKSPACE_ROOT) \subseteq dirs

====
